---- MODULE Spec2Model ----
(***************************************************************************)
(* Migration-graph analytics of the reddit_analysis repository.            *)
(*                                                                         *)
(* Part 1 (SpecGraph): the graph utilities findPath and                    *)
(* calculateCentrality, translated from the JavaScript source.             *)
(* Community ids are modelled as the naturals 1..MaxNodes; the scenario    *)
(* communities A, B, C of the specification are the ids 1, 2, 3.           *)
(*                                                                         *)
(* Part 2 (SpecFlow): the migration detector and the flow aggregator.      *)
(* Their code (data_processor.py) is not part of the source tree, only     *)
(* its documented signatures are; they are modelled from the               *)
(* specification's sections 4.1 and 4.2.                                   *)
(*                                                                         *)
(* Part 3 (SpecUtils): every graph utility of dataTransform and            *)
(* calculations applied to a graph with free link values, with the         *)
(* arrays each utility allocates and the ones it writes.                   *)
(*                                                                         *)
(* Part 4 (SpecApp): the state of the App component, its event handlers    *)
(* and its filter effect.                                                  *)
(*                                                                         *)
(* Part 5 (SpecProxy): the Reddit API proxy server, its token cache and    *)
(* the request handlers that run concurrently between their awaits.        *)
(***************************************************************************)
EXTENDS Integers, Sequences, FiniteSets, TLC

VARIABLES
    graph,        \* the graph object handed to the graph utilities
    op,           \* the utility that ran last, "none" before the call
    sourceId,     \* findPath's sourceId argument (0 when findPath did not run)
    targetId,     \* findPath's targetId argument (0 when findPath did not run)
    path,         \* findPath's return value
    centrality,   \* calculateCentrality's return value
    returned,     \* the return value of the other utilities
    records,      \* PostingRecordStore: the posting records loaded for the run
    config,       \* the detector configuration
    stage,        \* the pipeline stage reached: "idle", "load", "detected", "aggregated"
    events,       \* MigrationDetector's output stream
    edges,        \* FlowAggregator's output
    rawData,            \* App state: the loaded document (null before the load)
    filteredData,       \* App state: the document handed to the views
    selectedCommunity,  \* App state: a node id, 0 for null
    showDetail,         \* App state
    selectedCategory,   \* App state: "all" or a category
    minFlow,            \* App state
    highlightNodes,     \* App state: array of node ids
    highlightLinks,     \* App state: array of links
    loading,            \* App state
    effectPending,      \* a dependency of the filter effect changed since it last ran
    accessToken,        \* proxy: the cached token, 0 for null
    tokenExpiry,        \* proxy: the cached expiry in ms, NoExpiry for null
    now,                \* proxy: Date.now() in ms
    handlers,           \* proxy: the position of each /api/reddit/thread handler
    hasCredentials,     \* proxy: REDDIT_CLIENT_ID and REDDIT_CLIENT_SECRET are set
    tokenRequests,      \* proxy: the token requests sent to Reddit so far
    cacheWrites,        \* proxy: the writes of accessToken / tokenExpiry so far
    threadFetches,      \* proxy: the thread fetches sent to Reddit so far
    threadUrl,          \* thread app state url: "empty", "other" or "reddit"
    threadLoading,      \* thread app state loading
    threadError,        \* thread app state error: "null" or a message
    threadData,         \* thread app state threadData: 0 for null
    selectedNode,       \* thread app state selectedNode: 0 for null
    submit,             \* the last handleSubmit call: "none", "invalidUrl", "pending", "rejected", "resolved"
    submits,            \* the handleSubmit calls so far
    parseCalls,         \* the parseRedditThread calls so far
    tree,               \* the comment tree handed to transformTreeTo3DGraph
    graph3d,            \* transformTreeTo3DGraph's return value, empty before the call
    graphNode,          \* the graph node handed to computeNodeColor / getNodeTypeLabel
    color,              \* computeNodeColor's return value, "none" before the call
    label               \* getNodeTypeLabel's return value, "none" before the call

graphVars == <<graph, op, sourceId, targetId, path, centrality, returned>>

flowVars == <<records, config, stage, events, edges>>

appVars == <<rawData, filteredData, selectedCommunity, showDetail, selectedCategory,
             minFlow, highlightNodes, highlightLinks, loading, effectPending>>

proxyVars == <<accessToken, tokenExpiry, now, handlers, hasCredentials,
               tokenRequests, cacheWrites, threadFetches>>

threadAppVars == <<threadUrl, threadLoading, threadError, threadData, selectedNode,
                   submit, submits, parseCalls>>

transformVars == <<tree, graph3d, graphNode, color, label>>

threadVars == <<threadAppVars, transformVars>>

vars == <<graph, op, sourceId, targetId, path, centrality, returned,
          records, config, stage, events, edges,
          rawData, filteredData, selectedCommunity, showDetail, selectedCategory,
          minFlow, highlightNodes, highlightLinks, loading, effectPending,
          accessToken, tokenExpiry, now, handlers, hasCredentials,
          tokenRequests, cacheWrites, threadFetches,
          threadUrl, threadLoading, threadError, threadData, selectedNode,
          submit, submits, parseCalls, tree, graph3d, graphNode, color, label>>

----------------------------------------------------------------------------
(* Bounds *)

MaxNodes == 4
MaxLinks == 4
MaxValue == 2
MaxUsers == 2
MaxDay == 1
MaxPosts == 2
MaxRecords == 4

Ids == 1..MaxNodes

----------------------------------------------------------------------------
(* Sequence helpers *)

Range(s) == {s[i] : i \in DOMAIN s}

Last(s) == s[Len(s)]

\* the ids strictly between the first and the last element of a path
Interior(p) == {p[i] : i \in 2..(Len(p) - 1)}

----------------------------------------------------------------------------
(* The graph object.  A JavaScript value that may be missing is a flag     *)
(* plus a sequence: exists = FALSE is a null/undefined graph, hasNodes /   *)
(* hasLinks = FALSE a graph without its nodes / links property.            *)

CategoryOf(i) == IF i % 2 = 1 THEN "fitness" ELSE "tech"

Node(i) == [id |-> i, category |-> CategoryOf(i)]

\* node ids are unique across the graph
NodeSeq(n) == [i \in 1..n |-> Node(i)]

\* the value of the link at position i; the utilities below never read it,
\* the positions give neighbouring links different values in both orders
LinkValue(i) == (i % MaxValue) + 1

Ends(ids) == ids \X ids

\* the link sequence with the given ends
LinksOf(e) ==
    [i \in DOMAIN e |-> [source |-> e[i][1], target |-> e[i][2], value |-> LinkValue(i)]]

GraphOf(n, ls) ==
    [exists |-> TRUE, hasNodes |-> TRUE, hasLinks |-> TRUE,
     nodes |-> NodeSeq(n), links |-> ls]

\* a null / undefined graph
NoGraph ==
    [exists |-> FALSE, hasNodes |-> FALSE, hasLinks |-> FALSE, nodes |-> <<>>, links |-> <<>>]

MissingGraphs ==
    {[exists |-> FALSE, hasNodes |-> FALSE, hasLinks |-> FALSE,
      nodes |-> <<>>, links |-> <<>>],
     [exists |-> TRUE, hasNodes |-> FALSE, hasLinks |-> TRUE,
      nodes |-> <<>>, links |-> <<[source |-> 1, target |-> 2, value |-> 1]>>],
     [exists |-> TRUE, hasNodes |-> TRUE, hasLinks |-> FALSE,
      nodes |-> NodeSeq(2), links |-> <<>>]}

NodeIds(g) == {g.nodes[i].id : i \in DOMAIN g.nodes}

\* a guard that tests the graph object alone
MissingGraphOnly(g) == ~g.exists

\* !graph || !graph.nodes || !graph.links
Missing(g) == ~g.exists \/ ~g.hasNodes \/ ~g.hasLinks

----------------------------------------------------------------------------
(* findPath *)

\* an adjacency list that also walks every link backwards
RECURSIVE AdjacencyUndirected(_, _)
AdjacencyUndirected(links, id) ==
    IF links = <<>> THEN <<>>
    ELSE (IF Head(links).source = id THEN <<Head(links).target>> ELSE <<>>)
         \o (IF Head(links).target = id THEN <<Head(links).source>> ELSE <<>>)
         \o AdjacencyUndirected(Tail(links), id)

\* an adjacency list filled with unshift instead of push
RECURSIVE AdjacencyReversed(_, _)
AdjacencyReversed(links, id) ==
    IF links = <<>> THEN <<>>
    ELSE IF Head(links).source = id
         THEN AdjacencyReversed(Tail(links), id) \o <<Head(links).target>>
         ELSE AdjacencyReversed(Tail(links), id)

\* graph.links.forEach(link => adjacency.get(link.source).push(link.target)):
\* the targets of the links leaving id, in the order of graph.links
RECURSIVE Adjacency(_, _)
Adjacency(links, id) ==
    IF links = <<>> THEN <<>>
    ELSE IF Head(links).source = id
         THEN <<Head(links).target>> \o Adjacency(Tail(links), id)
         ELSE Adjacency(Tail(links), id)

\* a search that marks a node visited when it is taken from the queue, not
\* when it is put there
RECURSIVE ExpandMarkingCurrent(_, _, _, _)
ExpandMarkingCurrent(neighbors, p, queue, visited) ==
    IF neighbors = <<>> THEN [queue |-> queue, visited |-> visited \cup {Last(p)}]
    ELSE IF Head(neighbors) \notin visited \cup {Last(p)}
         THEN ExpandMarkingCurrent(Tail(neighbors), p,
                                   Append(queue, Append(p, Head(neighbors))), visited)
         ELSE ExpandMarkingCurrent(Tail(neighbors), p, queue, visited)

\* for (const neighbor of neighbors) if (!visited.has(neighbor)) { ... }
RECURSIVE Expand(_, _, _, _)
Expand(neighbors, p, queue, visited) ==
    IF neighbors = <<>> THEN [queue |-> queue, visited |-> visited]
    ELSE IF Head(neighbors) \notin visited
         THEN Expand(Tail(neighbors), p,
                     Append(queue, Append(p, Head(neighbors))),
                     visited \cup {Head(neighbors)})
         ELSE Expand(Tail(neighbors), p, queue, visited)

\* while (queue.length > 0) { ... }; shifts counts the iterations
RECURSIVE BfsLoop(_, _, _, _, _)
BfsLoop(links, queue, visited, target, shifts) ==
    IF queue = <<>> THEN [path |-> <<>>, visited |-> visited, shifts |-> shifts]
    ELSE LET p == Head(queue)
             current == Last(p)
         IN IF current = target
            THEN [path |-> p, visited |-> visited, shifts |-> shifts + 1]
            ELSE LET e == Expand(Adjacency(links, current), p, Tail(queue), visited)
                 IN BfsLoop(links, e.queue, e.visited, target, shifts + 1)

\* a search that tests a node against the target when it is discovered,
\* never the source itself
BfsSkipSource(g, s, t) ==
    IF Missing(g) THEN [path |-> <<>>, visited |-> {}, shifts |-> 0]
    ELSE LET e == Expand(Adjacency(g.links, s), <<s>>, <<>>, {s})
         IN BfsLoop(g.links, e.queue, e.visited, t, 1)

Bfs(g, s, t) ==
    IF Missing(g) THEN [path |-> <<>>, visited |-> {}, shifts |-> 0]
    ELSE BfsLoop(g.links, <<(<<s>>)>>, {s}, t, 0)

findPath(g, s, t) == Bfs(g, s, t).path

----------------------------------------------------------------------------
(* calculateCentrality.  A score is the accumulated count over the         *)
(* normalizer, kept as the exact fraction num/den; nan marks the           *)
(* not-a-number that incrementing a missing key produces.                  *)

Zero == [nan |-> FALSE, num |-> 0, den |-> 1]

NaN == [nan |-> TRUE, num |-> 0, den |-> 1]

\* centrality[id]++
Increment(c, id) ==
    IF id \in DOMAIN c
    THEN IF c[id].nan THEN c ELSE [c EXCEPT ![id].num = @ + 1]
    ELSE (id :> NaN) @@ c

\* the loop  for (let i = ...; i < path.length - 1; i++) centrality[path[i]]++
\* from the 1-based position i on
RECURSIVE IncrementPath(_, _, _)
IncrementPath(c, p, i) ==
    IF i >= Len(p) THEN c
    ELSE IncrementPath(Increment(c, p[i]), p, i + 1)

\* a loop that starts at the path's first element
IncrementFromSource(c, p) == IncrementPath(c, p, 1)

\* for (let i = 1; ...): JavaScript's index 1 is the second element
IncrementIntermediate(c, p) == IncrementPath(c, p, 2)

\* graph.nodes.forEach(target => { if (source.id !== target.id) ... })
RECURSIVE ForEachTarget(_, _, _, _)
ForEachTarget(c, g, s, j) ==
    IF j > Len(g.nodes) THEN c
    ELSE LET t == g.nodes[j].id
         IN IF s # t
            THEN ForEachTarget(IncrementIntermediate(c, findPath(g, s, t)), g, s, j + 1)
            ELSE ForEachTarget(c, g, s, j + 1)

\* graph.nodes.forEach(source => ...)
RECURSIVE ForEachSource(_, _, _)
ForEachSource(c, g, i) ==
    IF i > Len(g.nodes) THEN c
    ELSE ForEachSource(ForEachTarget(c, g, g.nodes[i].id, 1), g, i + 1)

\* a normalizer that counts ordered pairs
NormalizerOrdered(numNodes) == (numNodes - 1) * (numNodes - 2)

\* (numNodes - 1) * (numNodes - 2) / 2: a product of consecutive integers
\* is even, so the quotient is exact
Normalizer(numNodes) == ((numNodes - 1) * (numNodes - 2)) \div 2

\* a guard that lets a zero normalizer through
DividesByZero(numNodes) == Normalizer(numNodes) >= 0

\* if (normalizer > 0)
Divides(numNodes) == Normalizer(numNodes) > 0

\* centrality[nodeId] /= normalizer
Normalize(c, numNodes) ==
    IF Divides(numNodes)
    THEN [id \in DOMAIN c |-> [c[id] EXCEPT !.den = Normalizer(numNodes)]]
    ELSE c

NoScores == [id \in {} |-> Zero]

calculateCentrality(g) ==
    IF Missing(g) THEN NoScores
    ELSE Normalize(ForEachSource([id \in NodeIds(g) |-> Zero], g, 1), Len(g.nodes))

----------------------------------------------------------------------------
(* PostingRecordStore, MigrationDetector and FlowAggregator.  Times are    *)
(* whole days.                                                             *)

Communities == <<"fitness", "loseit", "keto">>

Users == 1..MaxUsers

Days == 0..MaxDay

CommunityIndex(c) == CHOOSE i \in DOMAIN Communities : Communities[i] = c

\* PostingRecord: first_seen <= last_seen
PostingRecords ==
    {r \in [user : Users, community : Range(Communities), first_seen : Days,
            last_seen : Days, post_count : 1..MaxPosts] : r.first_seen <= r.last_seen}

\* inactivity_window_days, min_gap_days, max_gap_days, min_posts_threshold
Configs ==
    {c \in [inactivity_window : Days, min_gap : Days, max_gap : Days,
            min_posts_threshold : 1..MaxPosts] : c.min_gap <= c.max_gap}

NoConfig == [inactivity_window |-> 0, min_gap |-> 0, max_gap |-> 0, min_posts_threshold |-> 1]

\* the single user's records {fitness: [day0,day10], loseit: [day15,day40]}
ScenarioRecords ==
    {[user |-> 1, community |-> "fitness", first_seen |-> 0, last_seen |-> 10, post_count |-> 1],
     [user |-> 1, community |-> "loseit", first_seen |-> 15, last_seen |-> 40, post_count |-> 1]}

\* two users who both leave fitness for loseit: fitness's activity interval
\* ends on day 15 for both, loseit begins 5 and 15 days after it
TwoUserRecords ==
    {[user |-> 1, community |-> "fitness", first_seen |-> 0, last_seen |-> 10, post_count |-> 1],
     [user |-> 1, community |-> "loseit", first_seen |-> 20, last_seen |-> 40, post_count |-> 1],
     [user |-> 2, community |-> "fitness", first_seen |-> 0, last_seen |-> 10, post_count |-> 1],
     [user |-> 2, community |-> "loseit", first_seen |-> 30, last_seen |-> 40, post_count |-> 1]}

\* inactivity_window=5d, min_gap=1d, max_gap=180d
ScenarioConfig ==
    [inactivity_window |-> 5, min_gap |-> 1, max_gap |-> 180, min_posts_threshold |-> 1]

\* the records of one user that count as active: communities below
\* min_posts_threshold are excluded from migration detection entirely
ActiveRecords(rs, u, cfg) ==
    {r \in rs : r.user = u /\ r.post_count >= cfg.min_posts_threshold}

\* r comes before q in the order by first_seen (ties by community)
Before(r, q) ==
    \/ r.first_seen < q.first_seen
    \/ r.first_seen = q.first_seen /\ CommunityIndex(r.community) <= CommunityIndex(q.community)

\* sort the user's PostingRecords by first_seen
RECURSIVE SortByFirstSeen(_)
SortByFirstSeen(rs) ==
    IF rs = {} THEN <<>>
    ELSE LET first == CHOOSE r \in rs : \A q \in rs : Before(r, q)
         IN <<first>> \o SortByFirstSeen(rs \ {first})

\* a community is active from first_seen until last_seen + inactivity_window
ActiveEnd(r, cfg) == r.last_seen + cfg.inactivity_window

\* the gap between the end of A's activity interval and the begin of B's
Gap(a, b, cfg) == b.first_seen - ActiveEnd(a, cfg)

\* a detector that lets B begin on the day A's activity interval ends
QualifiesAtEnd(a, b, cfg) ==
    /\ a.community # b.community
    /\ b.first_seen >= ActiveEnd(a, cfg)
    /\ cfg.min_gap <= Gap(a, b, cfg)
    /\ Gap(a, b, cfg) <= cfg.max_gap

\* B's activity interval begins strictly after A's end but within
\* [min_gap, max_gap] of it
Qualifies(a, b, cfg) ==
    /\ a.community # b.community
    /\ b.first_seen > ActiveEnd(a, cfg)
    /\ cfg.min_gap <= Gap(a, b, cfg)
    /\ Gap(a, b, cfg) <= cfg.max_gap

MigrationEvent(a, b, cfg) ==
    [user |-> a.user, from_community |-> a.community, to_community |-> b.community,
     gap |-> Gap(a, b, cfg), detected_at |-> b.first_seen]

\* every qualifying (ended, begun) pair produces a separate event
RECURSIVE EventsFrom(_, _, _, _)
EventsFrom(a, sorted, j, cfg) ==
    IF j > Len(sorted) THEN <<>>
    ELSE (IF Qualifies(a, sorted[j], cfg) THEN <<MigrationEvent(a, sorted[j], cfg)>> ELSE <<>>)
         \o EventsFrom(a, sorted, j + 1, cfg)

RECURSIVE EventsOf(_, _, _)
EventsOf(sorted, i, cfg) ==
    IF i > Len(sorted) THEN <<>>
    ELSE EventsFrom(sorted[i], sorted, 1, cfg) \o EventsOf(sorted, i + 1, cfg)

\* detect(records of one user, config)
detect(rs, cfg) == EventsOf(SortByFirstSeen(rs), 1, cfg)

\* the detector consumes one user's records at a time
RECURSIVE DetectAll(_, _, _)
DetectAll(rs, u, cfg) ==
    IF u > MaxUsers THEN <<>>
    ELSE detect(ActiveRecords(rs, u, cfg), cfg) \o DetectAll(rs, u + 1, cfg)

\* a grouping by the destination alone
TargetMatches(e, ev) == e.target = ev.to_community

\* events are grouped by (from_community, to_community)
PairMatches(e, ev) == e.source = ev.from_community /\ e.target = ev.to_community

Min(a, b) == IF a <= b THEN a ELSE b

Max(a, b) == IF a >= b THEN a ELSE b

\* the edge a first event of a pair opens
NewEdge(ev) ==
    [source |-> ev.from_community, target |-> ev.to_community, users |-> {ev.user},
     value |-> 1, gap_sum |-> ev.gap, event_count |-> 1,
     first_at |-> ev.detected_at, last_at |-> ev.detected_at]

\* value = count of distinct users contributing at least one event;
\* avg_gap = gap_sum / event_count
AddEvent(e, ev) ==
    [e EXCEPT !.users = @ \cup {ev.user},
              !.value = Cardinality(e.users \cup {ev.user}),
              !.gap_sum = @ + ev.gap,
              !.event_count = @ + 1,
              !.first_at = Min(@, ev.detected_at),
              !.last_at = Max(@, ev.detected_at)]

\* an aggregator that opens an edge for every event
AccumulateUngrouped(es, ev) == Append(es, NewEdge(ev))

\* edge order is the insertion order of the first-seen pair
Accumulate(es, ev) ==
    IF \E i \in DOMAIN es : PairMatches(es[i], ev)
    THEN LET i == CHOOSE k \in DOMAIN es :
                      PairMatches(es[k], ev) /\ \A j \in 1..(k - 1) : ~PairMatches(es[j], ev)
         IN [es EXCEPT ![i] = AddEvent(es[i], ev)]
    ELSE Append(es, NewEdge(ev))

RECURSIVE AggregateFrom(_, _, _)
AggregateFrom(es, evs, i) ==
    IF i > Len(evs) THEN es
    ELSE AggregateFrom(Accumulate(es, evs[i]), evs, i + 1)

\* aggregate(events)
aggregate(evs) == AggregateFrom(<<>>, evs, 1)

----------------------------------------------------------------------------
(* Bounds and program constants of the filter utilities and the App *)

MaxRawNodes == 3
MaxRawLinks == 2
MaxSlider == 2

\* const [minFlow, setMinFlow] = useState(1)
DefaultMinFlow == 1

\* <input type="range" min="0" max="50" step="5">
SliderStep == 5

SliderMax == 50

\* .slice(0, 5)
TopCount == 5

RawIds == 1..MaxRawNodes

Categories == {CategoryOf(i) : i \in RawIds}

\* link values on both sides of the thresholds the App can set
FlowValues == {DefaultMinFlow, SliderStep}

\* the values minFlow takes: its initial value and the slider's positions
MinFlows ==
    {DefaultMinFlow} \cup {m \in {SliderStep * k : k \in 0..MaxSlider} : m <= SliderMax}

\* the thresholds filterByMinFlow is called with: those of the App and a
\* negative one
Thresholds == MinFlows \cup {0 - SliderStep}

\* the link sequence with the given ends and values
RawLinksOf(e, v) ==
    [i \in DOMAIN e |-> [source |-> e[i][1], target |-> e[i][2], value |-> v[i]]]

\* the loaded document { graph, metadata }; present = FALSE is null
DataOf(g) == [present |-> TRUE, graph |-> g]

NoData == [present |-> FALSE, graph |-> NoGraph]

\* a property read of undefined
TypeError == [thrown |-> "TypeError"]

\* links.reduce((sum, link) => sum + link.value, 0)
RECURSIVE SumValues(_)
SumValues(links) ==
    IF links = <<>> THEN 0 ELSE Head(links).value + SumValues(Tail(links))

----------------------------------------------------------------------------
(* filterByCategory, filterByMinFlow *)

\* a link test that accepts a link with one end among the ids
LinkTouches(link, ids) == link.source \in ids \/ link.target \in ids

\* nodeIds.has(link.source) && nodeIds.has(link.target)
LinkWithin(link, ids) == link.source \in ids /\ link.target \in ids

filterByCategory(data, category) ==
    IF ~data.present \/ ~data.graph.exists \/ category = "all" THEN data
    ELSE IF ~data.graph.hasNodes \/ ~data.graph.hasLinks THEN TypeError
    ELSE LET nodes == data.graph.nodes
             links == data.graph.links
             KeepNode(node) == node.category = category
             filteredNodes == SelectSeq(nodes, KeepNode)
             nodeIds == {filteredNodes[i].id : i \in DOMAIN filteredNodes}
             KeepLink(link) == LinkWithin(link, nodeIds)
             filteredLinks == SelectSeq(links, KeepLink)
         IN [data EXCEPT !.graph = [exists |-> TRUE, hasNodes |-> TRUE, hasLinks |-> TRUE,
                                    nodes |-> filteredNodes, links |-> filteredLinks]]

\* connectedNodeIds.has(node.id)
NodeConnected(node, ids) == node.id \in ids

\* a threshold test that drops the links at the threshold
ValueAbove(link, m) == link.value > m

\* link.value >= minFlow
ValueAtLeast(link, m) == link.value >= m

filterByMinFlow(data, m) ==
    IF ~data.present \/ ~data.graph.exists \/ m <= 0 THEN data
    ELSE IF ~data.graph.hasNodes \/ ~data.graph.hasLinks THEN TypeError
    ELSE LET nodes == data.graph.nodes
             links == data.graph.links
             KeepLink(link) == ValueAtLeast(link, m)
             filteredLinks == SelectSeq(links, KeepLink)
             connectedNodeIds ==
                 {filteredLinks[i].source : i \in DOMAIN filteredLinks}
                     \cup {filteredLinks[i].target : i \in DOMAIN filteredLinks}
             KeepNode(node) == NodeConnected(node, connectedNodeIds)
             filteredNodes == SelectSeq(nodes, KeepNode)
         IN [data EXCEPT !.graph = [exists |-> TRUE, hasNodes |-> TRUE, hasLinks |-> TRUE,
                                    nodes |-> filteredNodes, links |-> filteredLinks]]

----------------------------------------------------------------------------
(* getConnectedLinks, calculateNodeFlow *)

\* graph.links.filter(link => link.target === nodeId)
LinksIntoNode(links, nodeId) ==
    LET Enters(link) == link.target = nodeId IN SelectSeq(links, Enters)

\* graph.links.filter(link => link.source === nodeId)
LinksOutOfNode(links, nodeId) ==
    LET Leaves(link) == link.source = nodeId IN SelectSeq(links, Leaves)

getConnectedLinks(g, nodeId) ==
    IF ~g.exists \/ ~g.hasLinks THEN [incoming |-> <<>>, outgoing |-> <<>>]
    ELSE [incoming |-> LinksIntoNode(g.links, nodeId),
          outgoing |-> LinksOutOfNode(g.links, nodeId)]

calculateNodeFlow(g, nodeId) ==
    LET connected == getConnectedLinks(g, nodeId)
        incomingFlow == SumValues(connected.incoming)
        outgoingFlow == SumValues(connected.outgoing)
    IN [incoming |-> incomingFlow, outgoing |-> outgoingFlow,
        total |-> incomingFlow + outgoingFlow]

----------------------------------------------------------------------------
(* calculateCommunityStats.  Array.prototype.sort sorts in place, so the   *)
(* arrays the function holds are modelled by name: links is graph.links    *)
(* itself, incomingLinks and outgoingLinks are the arrays filter returns.  *)
(* Links carry no avg_time_gap in this model; the avgTime fields, which    *)
(* read nothing else, are left out of the result.                          *)

\* the position a link takes in an array sorted by (a, b) => b.value - a.value;
\* the sort is stable
RECURSIVE InsertByValue(_, _)
InsertByValue(sorted, link) ==
    IF sorted = <<>> THEN <<link>>
    ELSE IF Head(sorted).value >= link.value
         THEN <<Head(sorted)>> \o InsertByValue(Tail(sorted), link)
         ELSE <<link>> \o sorted

RECURSIVE SortByValue(_)
SortByValue(arr) ==
    IF arr = <<>> THEN <<>>
    ELSE InsertByValue(SortByValue(SubSeq(arr, 1, Len(arr) - 1)), Last(arr))

\* a sort call on graph.links instead of the filtered array
SortLinksInPlace(arrays, name) ==
    [arrays EXCEPT !["links"] = SortByValue(arrays["links"])]

\* incomingLinks.sort(...) / outgoingLinks.sort(...)
SortInPlace(arrays, name) ==
    [arrays EXCEPT ![name] = SortByValue(arrays[name])]

\* .slice(0, n)
Slice(arr, n) == SubSeq(arr, 1, Min(n, Len(arr)))

\* the arrays after the call
CommunityStatsArrays(g, communityId) ==
    LET allocated == [links |-> g.links,
                      incomingLinks |-> LinksIntoNode(g.links, communityId),
                      outgoingLinks |-> LinksOutOfNode(g.links, communityId)]
    IN SortInPlace(SortInPlace(allocated, "incomingLinks"), "outgoingLinks")

\* communityId = 0 is a missing (falsy) id
calculateCommunityStats(g, communityId) ==
    IF ~g.exists \/ communityId = 0 THEN [null |-> TRUE]
    ELSE IF ~g.hasLinks THEN TypeError
    ELSE LET incomingLinks == LinksIntoNode(g.links, communityId)
             outgoingLinks == LinksOutOfNode(g.links, communityId)
             totalIncoming == SumValues(incomingLinks)
             totalOutgoing == SumValues(outgoingLinks)
             arrays == CommunityStatsArrays(g, communityId)
         IN [incoming |-> [count |-> Len(incomingLinks), total |-> totalIncoming,
                           top |-> Slice(arrays.incomingLinks, TopCount)],
             outgoing |-> [count |-> Len(outgoingLinks), total |-> totalOutgoing,
                           top |-> Slice(arrays.outgoingLinks, TopCount)],
             netFlow |-> totalIncoming - totalOutgoing]

\* the graph object after the call
GraphAfterCommunityStats(g, communityId) ==
    IF ~g.exists \/ communityId = 0 \/ ~g.hasLinks THEN g
    ELSE [g EXCEPT !.links = CommunityStatsArrays(g, communityId).links]

----------------------------------------------------------------------------
(* calculateNetworkStats.  avgFlowPerLink is kept in tenths; avgTimeGap    *)
(* and the metadata spread are left out, as links carry no avg_time_gap.   *)

\* the keys of nodeDegrees in insertion order: the node ids, then the link
\* ends that are not keys yet
RECURSIVE DegreeKeys(_, _)
DegreeKeys(keys, links) ==
    IF links = <<>> THEN keys
    ELSE LET withSource == IF Head(links).source \in Range(keys) THEN keys
                           ELSE Append(keys, Head(links).source)
             withTarget == IF Head(links).target \in Range(withSource) THEN withSource
                           ELSE Append(withSource, Head(links).target)
         IN DegreeKeys(withTarget, Tail(links))

Degree(links, id) == Len(LinksIntoNode(links, id)) + Len(LinksOutOfNode(links, id))

\* nodeDegrees.forEach: if (degree > maxDegree) { maxDegree = degree; mostConnected = nodeId }
RECURSIVE MostConnected(_, _, _)
MostConnected(keys, links, best) ==
    IF keys = <<>> THEN best
    ELSE LET degree == Degree(links, Head(keys))
         IN MostConnected(Tail(keys), links,
                          IF degree > best.maxDegree
                          THEN [mostConnected |-> Head(keys), maxDegree |-> degree]
                          ELSE best)

\* Math.round(x * 10) for x = total / count >= 0
RoundTenths(total, count) == (20 * total + count) \div (2 * count)

calculateNetworkStats(g) ==
    IF ~g.exists THEN <<>>
    ELSE LET nodes == IF g.hasNodes THEN g.nodes ELSE <<>>
             links == IF g.hasLinks THEN g.links ELSE <<>>
             totalFlow == SumValues(links)
             keys == DegreeKeys([i \in DOMAIN nodes |-> nodes[i].id], links)
             most == MostConnected(keys, links, [mostConnected |-> 0, maxDegree |-> 0])
         IN [totalNodes |-> Len(nodes), totalLinks |-> Len(links), totalFlow |-> totalFlow,
             avgFlowPerLinkTenths |-> IF Len(links) > 0 THEN RoundTenths(totalFlow, Len(links)) ELSE 0,
             mostConnected |-> most.mostConnected, maxDegree |-> most.maxDegree]

----------------------------------------------------------------------------
(* The parts of the state a specification does not use *)

GraphIdle ==
    /\ graph = NoGraph
    /\ op = "none"
    /\ sourceId = 0
    /\ targetId = 0
    /\ path = <<>>
    /\ centrality = NoScores
    /\ returned = <<>>

FlowIdle ==
    /\ records = {}
    /\ config = NoConfig
    /\ stage = "idle"
    /\ events = <<>>
    /\ edges = <<>>

NoExpiry == [isNull |-> TRUE, ms |-> 0]

\* the App before its first render completes
AppIdle ==
    /\ rawData = NoData
    /\ filteredData = NoData
    /\ selectedCommunity = 0
    /\ showDetail = FALSE
    /\ selectedCategory = "all"
    /\ minFlow = DefaultMinFlow
    /\ highlightNodes = <<>>
    /\ highlightLinks = <<>>
    /\ loading = TRUE
    /\ effectPending = FALSE

\* the proxy before it is started
ProxyIdle ==
    /\ accessToken = 0
    /\ tokenExpiry = NoExpiry
    /\ now = 0
    /\ handlers = <<>>
    /\ hasCredentials = FALSE
    /\ tokenRequests = 0
    /\ cacheWrites = 0
    /\ threadFetches = 0

\* no comment tree
NoTree == [size |-> 0, parent |-> <<>>, score |-> <<>>, flags |-> <<>>]

NoNode ==
    [isSolution |-> FALSE, isQuestion |-> FALSE, isDebate |-> FALSE,
     depth |-> 0, childrenCount |-> 0]

NoGraph3d == [nodes |-> <<>>, edges |-> <<>>, maxScore |-> 0]

\* the thread app before a url is entered
ThreadAppIdle ==
    /\ threadUrl = "empty"
    /\ threadLoading = FALSE
    /\ threadError = "null"
    /\ threadData = 0
    /\ selectedNode = 0
    /\ submit = "none"
    /\ submits = 0
    /\ parseCalls = 0

\* no tree and no node given, nothing computed
TransformIdle ==
    /\ tree = NoTree
    /\ graph3d = NoGraph3d
    /\ graphNode = NoNode
    /\ color = "none"
    /\ label = "none"

ThreadIdle == ThreadAppIdle /\ TransformIdle

----------------------------------------------------------------------------
(* Specification of the graph utilities: a graph is given, and one of the  *)
(* utilities is applied to it.  The graphs are: every sequence of at most  *)
(* MaxLinks links (duplicate links, self-loops and cycles included)        *)
(* between MaxNodes nodes, whose links reference only existing node ids;   *)
(* every such sequence between the first MaxNodes - 1 ids over a graph of  *)
(* fewer nodes, where a link end above the node count is a dangling        *)
(* reference; and the graphs with a missing part.                          *)

InitGraph ==
    /\ \/ graph \in MissingGraphs
       \/ \E n \in 0..(MaxNodes - 1), k \in 0..MaxLinks :
              \E e \in [1..k -> Ends(1..(MaxNodes - 1))] :
                  graph = GraphOf(n, LinksOf(e))
       \/ \E k \in 0..MaxLinks : \E e \in [1..k -> Ends(Ids)] :
              graph = GraphOf(MaxNodes, LinksOf(e))
    /\ op = "none"
    /\ sourceId = 0
    /\ targetId = 0
    /\ path = <<>>
    /\ centrality = NoScores
    /\ returned = <<>>
    /\ FlowIdle
    /\ AppIdle
    /\ ProxyIdle
    /\ ThreadIdle

FindPath ==
    \E s \in Ids, t \in Ids :
        /\ op = "none"
        /\ op' = "findPath"
        /\ sourceId' = s
        /\ targetId' = t
        /\ path' = findPath(graph, s, t)
        /\ centrality' = NoScores
        /\ UNCHANGED <<graph, returned>>
        /\ UNCHANGED <<flowVars, appVars, proxyVars, threadVars>>

CalculateCentrality ==
    /\ op = "none"
    /\ op' = "calculateCentrality"
    /\ sourceId' = 0
    /\ targetId' = 0
    /\ path' = <<>>
    /\ centrality' = calculateCentrality(graph)
    /\ UNCHANGED <<graph, returned>>
    /\ UNCHANGED <<flowVars, appVars, proxyVars, threadVars>>

NextGraph == FindPath \/ CalculateCentrality

SpecGraph == InitGraph /\ [][NextGraph]_vars

----------------------------------------------------------------------------
(* Specification of the migration pipeline: the records of a run are       *)
(* loaded, then the detector runs over every user, then the aggregator     *)
(* over the events.  A run starts from an empty store under any            *)
(* configuration, or from a scenario's store and configuration.            *)

InitFlow ==
    /\ GraphIdle
    /\ AppIdle
    /\ ProxyIdle
    /\ ThreadIdle
    /\ \/ records = {} /\ config \in Configs
       \/ records = ScenarioRecords /\ config = ScenarioConfig
       \/ records = TwoUserRecords /\ config = ScenarioConfig
    /\ stage = "load"
    /\ events = <<>>
    /\ edges = <<>>

\* for a given (user, community) pair there is at most one record
LoadRecord ==
    \E r \in PostingRecords :
        /\ stage = "load"
        /\ Cardinality(records) < MaxRecords
        /\ \A q \in records : ~(q.user = r.user /\ q.community = r.community)
        /\ records' = records \cup {r}
        /\ UNCHANGED <<config, stage, events, edges>>
        /\ UNCHANGED <<graphVars, appVars, proxyVars, threadVars>>

Detect ==
    /\ stage = "load"
    /\ stage' = "detected"
    /\ events' = DetectAll(records, 1, config)
    /\ UNCHANGED <<records, config, edges>>
    /\ UNCHANGED <<graphVars, appVars, proxyVars, threadVars>>

Aggregate ==
    /\ stage = "detected"
    /\ stage' = "aggregated"
    /\ edges' = aggregate(events)
    /\ UNCHANGED <<records, config, events>>
    /\ UNCHANGED <<graphVars, appVars, proxyVars, threadVars>>

NextFlow == LoadRecord \/ Detect \/ Aggregate

SpecFlow == InitFlow /\ [][NextFlow]_vars

----------------------------------------------------------------------------
(* Specification of the utility calls: a graph with free link values is    *)
(* given and one of the utilities is applied to it.  The graphs are every  *)
(* sequence of at most MaxRawLinks links between the ids of RawIds over    *)
(* at most MaxRawNodes nodes (a link end above the node count is a         *)
(* dangling reference), and the graphs with a missing part.  Each action   *)
(* gives the value returned and what the call leaves in the graph.         *)

InitUtils ==
    /\ \/ graph \in MissingGraphs
       \/ \E n \in 0..MaxRawNodes, k \in 0..MaxRawLinks :
              \E e \in [1..k -> Ends(RawIds)], v \in [1..k -> FlowValues] :
                  graph = GraphOf(n, RawLinksOf(e, v))
    /\ op = "none"
    /\ sourceId = 0
    /\ targetId = 0
    /\ path = <<>>
    /\ centrality = NoScores
    /\ returned = <<>>
    /\ FlowIdle
    /\ AppIdle
    /\ ProxyIdle
    /\ ThreadIdle

GetConnectedLinks ==
    \E nodeId \in RawIds :
        /\ op = "none"
        /\ op' = "getConnectedLinks"
        /\ returned' = [arg |-> nodeId, value |-> getConnectedLinks(graph, nodeId)]
        /\ UNCHANGED <<graph, sourceId, targetId, path, centrality>>
        /\ UNCHANGED <<flowVars, appVars, proxyVars, threadVars>>

CalculateNodeFlow ==
    \E nodeId \in RawIds :
        /\ op = "none"
        /\ op' = "calculateNodeFlow"
        /\ returned' = [arg |-> nodeId, value |-> calculateNodeFlow(graph, nodeId)]
        /\ UNCHANGED <<graph, sourceId, targetId, path, centrality>>
        /\ UNCHANGED <<flowVars, appVars, proxyVars, threadVars>>

CalculateCommunityStats ==
    \E communityId \in 0..MaxRawNodes :
        /\ op = "none"
        /\ op' = "calculateCommunityStats"
        /\ returned' = [arg |-> communityId,
                        value |-> calculateCommunityStats(graph, communityId)]
        /\ graph' = GraphAfterCommunityStats(graph, communityId)
        /\ UNCHANGED <<sourceId, targetId, path, centrality>>
        /\ UNCHANGED <<flowVars, appVars, proxyVars, threadVars>>

CalculateNetworkStats ==
    /\ op = "none"
    /\ op' = "calculateNetworkStats"
    /\ returned' = [arg |-> 0, value |-> calculateNetworkStats(graph)]
    /\ UNCHANGED <<graph, sourceId, targetId, path, centrality>>
    /\ UNCHANGED <<flowVars, appVars, proxyVars, threadVars>>

FilterByCategory ==
    \E category \in Categories \cup {"all"} :
        /\ op = "none"
        /\ op' = "filterByCategory"
        /\ returned' = [arg |-> category,
                        value |-> filterByCategory(DataOf(graph), category)]
        /\ UNCHANGED <<graph, sourceId, targetId, path, centrality>>
        /\ UNCHANGED <<flowVars, appVars, proxyVars, threadVars>>

FilterByMinFlow ==
    \E m \in Thresholds :
        /\ op = "none"
        /\ op' = "filterByMinFlow"
        /\ returned' = [arg |-> m, value |-> filterByMinFlow(DataOf(graph), m)]
        /\ UNCHANGED <<graph, sourceId, targetId, path, centrality>>
        /\ UNCHANGED <<flowVars, appVars, proxyVars, threadVars>>

NextUtils ==
    \/ FindPath
    \/ CalculateCentrality
    \/ GetConnectedLinks
    \/ CalculateNodeFlow
    \/ CalculateCommunityStats
    \/ CalculateNetworkStats
    \/ FilterByCategory
    \/ FilterByMinFlow

SpecUtils == InitUtils /\ [][NextUtils]_vars

----------------------------------------------------------------------------
(* The App component.  React 18 batches the state updates of one handler   *)
(* and runs the effects of a render before the next event is handled, so   *)
(* a handler is one action and is taken only when no effect is pending.    *)
(* The filter effect is pending when one of its dependencies [rawData,     *)
(* selectedCategory, minFlow, selectedCommunity] changed; its run on       *)
(* mount, with rawData null, returns at once and is not modelled.          *)

\* a validation that looks at the graph object alone
InvalidGraphOnly(g) == ~g.exists

\* if (!data.graph || !data.graph.nodes || !data.graph.links) throw ...
InvalidStructure(g) == ~g.exists \/ ~g.hasNodes \/ ~g.hasLinks

\* the empty structure returned on error
EmptyData == DataOf(GraphOf(0, <<>>))

\* response: the outcome of fetch('/data/sample_data.json'): the fetch
\* rejected, or a response with its ok flag and the graph of its document
loadMigrationData(response) ==
    IF response.rejected THEN EmptyData
    ELSE IF ~response.ok THEN EmptyData
    ELSE IF InvalidStructure(response.graph) THEN EmptyData
    ELSE DataOf(response.graph)

\* Array.from(new Set(ids)): the first occurrences, in order
RECURSIVE Distinct(_)
Distinct(ids) ==
    IF ids = <<>> THEN <<>>
    ELSE LET before == Distinct(SubSeq(ids, 1, Len(ids) - 1))
         IN IF Last(ids) \in Range(before) THEN before ELSE Append(before, Last(ids))

\* connectedNodes: communityId, incoming.map(l => l.source), outgoing.map(l => l.target)
ConnectedNodes(connected, communityId) ==
    Distinct(<<communityId>>
             \o [i \in DOMAIN connected.incoming |-> connected.incoming[i].source]
             \o [i \in DOMAIN connected.outgoing |-> connected.outgoing[i].target])

\* a test that finds every id
NodeExistsAlways(data, id) == TRUE

\* filtered.graph.nodes.some(n => n.id === selectedCommunity)
NodeExists(data, id) == id \in NodeIds(data.graph)

\* the filters applied by the filter effect
ApplyFilters(data, category, m) ==
    LET byCategory == IF category # "all" THEN filterByCategory(data, category) ELSE data
    IN IF m > 0 THEN filterByMinFlow(byCategory, m) ELSE byCategory

\* the fetch rejected, the response is not OK, or the document lacks
\* graph, graph.nodes or graph.links
FailedResponses ==
    [rejected : {TRUE}, ok : {FALSE}, graph : {NoGraph}]
        \cup [rejected : {FALSE}, ok : {FALSE}, graph : {NoGraph}]
        \cup [rejected : {FALSE}, ok : {TRUE}, graph : MissingGraphs]

InitApp ==
    /\ GraphIdle
    /\ FlowIdle
    /\ ProxyIdle
    /\ ThreadIdle
    /\ AppIdle

\* the load effect: fetchData resolves; setRawData, setFilteredData and
\* setLoading are one batch
LoadData ==
    /\ loading
    /\ \E response \in FailedResponses
                           \cup {[rejected |-> FALSE, ok |-> TRUE,
                                   graph |-> GraphOf(n, RawLinksOf(ev[1], ev[2]))] :
                                    n \in 0..MaxRawNodes,
                                    ev \in UNION {[1..k -> Ends(RawIds)] \X [1..k -> FlowValues] :
                                                      k \in 0..MaxRawLinks}} :
           /\ rawData' = loadMigrationData(response)
           /\ filteredData' = loadMigrationData(response)
    /\ loading' = FALSE
    /\ effectPending' = TRUE
    /\ UNCHANGED <<selectedCommunity, showDetail, selectedCategory, minFlow,
                   highlightNodes, highlightLinks>>
    /\ UNCHANGED <<graphVars, flowVars, proxyVars, threadVars>>

FilterEffect ==
    /\ effectPending
    /\ IF ~rawData.present
       THEN /\ effectPending' = FALSE
            /\ UNCHANGED <<filteredData, selectedCommunity, showDetail,
                           highlightNodes, highlightLinks>>
       ELSE LET filtered == ApplyFilters(rawData, selectedCategory, minFlow)
                cleared == selectedCommunity # 0 /\ ~NodeExists(filtered, selectedCommunity)
            IN /\ filteredData' = filtered
               /\ selectedCommunity' = IF cleared THEN 0 ELSE selectedCommunity
               /\ showDetail' = IF cleared THEN FALSE ELSE showDetail
               /\ highlightNodes' = IF cleared THEN <<>> ELSE highlightNodes
               /\ highlightLinks' = IF cleared THEN <<>> ELSE highlightLinks
               /\ effectPending' = cleared
    /\ UNCHANGED <<rawData, selectedCategory, minFlow, loading>>
    /\ UNCHANGED <<graphVars, flowVars, proxyVars, threadVars>>

\* the state handleNodeClick(node) leaves
NodeClicked(communityId) ==
    /\ filteredData.present
    /\ LET connected == getConnectedLinks(filteredData.graph, communityId)
       IN /\ selectedCommunity' = communityId
          /\ showDetail' = TRUE
          /\ highlightNodes' = ConnectedNodes(connected, communityId)
          /\ highlightLinks' = connected.incoming \o connected.outgoing
    /\ effectPending' = (communityId # selectedCommunity)
    /\ UNCHANGED <<rawData, filteredData, selectedCategory, minFlow, loading>>
    /\ UNCHANGED <<graphVars, flowVars, proxyVars, threadVars>>

\* a click on a node NetworkGraph draws
HandleNodeClick ==
    /\ ~loading
    /\ ~effectPending
    /\ \E i \in DOMAIN filteredData.graph.nodes :
           NodeClicked(filteredData.graph.nodes[i].id)

\* a selection in SearchBar, which lists the ids of rawData.graph.nodes
HandleCommunitySelect ==
    /\ ~loading
    /\ ~effectPending
    /\ \E communityId \in NodeIds(rawData.graph) :
           IF filteredData.present /\ NodeExists(filteredData, communityId)
           THEN NodeClicked(communityId)
           ELSE UNCHANGED vars

\* CommunityDetail is drawn, with its close button, when showDetail
HandleCloseDetail ==
    /\ ~loading
    /\ ~effectPending
    /\ showDetail
    /\ showDetail' = FALSE
    /\ highlightNodes' = <<>>
    /\ highlightLinks' = <<>>
    /\ UNCHANGED <<rawData, filteredData, selectedCommunity, selectedCategory,
                   minFlow, loading, effectPending>>
    /\ UNCHANGED <<graphVars, flowVars, proxyVars, threadVars>>

\* TimelineFilter's select: "all" and the categories of rawData
SetSelectedCategory ==
    /\ ~loading
    /\ ~effectPending
    /\ \E category \in {"all"} \cup {rawData.graph.nodes[i].category :
                                        i \in DOMAIN rawData.graph.nodes} :
           /\ selectedCategory' = category
           /\ effectPending' = (category # selectedCategory)
    /\ UNCHANGED <<rawData, filteredData, selectedCommunity, showDetail, minFlow,
                   highlightNodes, highlightLinks, loading>>
    /\ UNCHANGED <<graphVars, flowVars, proxyVars, threadVars>>

\* TimelineFilter's slider
SetMinFlow ==
    /\ ~loading
    /\ ~effectPending
    /\ \E m \in MinFlows \ {DefaultMinFlow} :
           /\ minFlow' = m
           /\ effectPending' = (m # minFlow)
    /\ UNCHANGED <<rawData, filteredData, selectedCommunity, showDetail, selectedCategory,
                   highlightNodes, highlightLinks, loading>>
    /\ UNCHANGED <<graphVars, flowVars, proxyVars, threadVars>>

NextApp ==
    \/ LoadData
    \/ FilterEffect
    \/ HandleNodeClick
    \/ HandleCommunitySelect
    \/ HandleCloseDetail
    \/ SetSelectedCategory
    \/ SetMinFlow

SpecApp == InitApp /\ [][NextApp]_vars

\* the fetch of the data file settles
FairApp == SpecApp /\ WF_vars(LoadData)

----------------------------------------------------------------------------
(* The Reddit API proxy.  Node runs one handler at a time up to its next   *)
(* await, so the steps of a /api/reddit/thread handler are: the request    *)
(* arrives and the handler runs to its first fetch or to its response;     *)
(* the token response arrives and the handler runs to the thread fetch or  *)
(* to its response; the thread response arrives and the handler responds.  *)
(* Handlers of different requests interleave at these steps.  Times are    *)
(* in ms, as Date.now() gives them, in ticks of TickMs.                    *)

MaxRequests == 3
MaxTicks == 3
MaxLifetime == 4
TicksPerMargin == 2

\* tokenExpiry = Date.now() + ((data.expires_in - 300) * 1000)
SafetyMargin == 300

MsPerSecond == 1000

\* res.status(400) / res.status(500) / res.json(data) / res.status(response.status)
BadRequest == 400

InternalError == 500

Ok == 200

UpstreamNotOk == 404

TickMs == (SafetyMargin * MsPerSecond) \div TicksPerMargin

\* the expires_in values Reddit reports, in seconds, on both sides of the margin
Lifetimes == {k * (SafetyMargin \div TicksPerMargin) : k \in 0..MaxLifetime}

Requests == 1..MaxRequests

\* the url query parameter: absent, without 'reddit.com', or a reddit url
Urls == {"missing", "invalid", "reddit"}

\* a handler whose request has not arrived
NewHandler ==
    [pc |-> "idle", url |-> "none", token |-> 0, fromCache |-> FALSE,
     expires_in |-> 0, receivedAt |-> 0, status |-> 0, responses |-> 0,
     upstream |-> "none"]

\* an expiry that leaves the margin out
ExpiryWithoutMargin(time, expires_in) == time + (expires_in * MsPerSecond)

\* Date.now() + ((data.expires_in - 300) * 1000)
ExpiryOf(time, expires_in) == time + ((expires_in - SafetyMargin) * MsPerSecond)

\* accessToken && tokenExpiry && Date.now() < tokenExpiry
CacheValid ==
    /\ accessToken # 0
    /\ ~tokenExpiry.isNull /\ tokenExpiry.ms # 0
    /\ now < tokenExpiry.ms

\* a validation that only asks for the parameter
UrlGiven(url) == url # "missing"

\* url && url.includes('reddit.com')
ValidUrl(url) == url = "reddit"

\* a credentials test that never fails
CredentialsAssumed(has) == FALSE

\* !clientId || !clientSecret
CredentialsMissing(has) == ~has

\* a response after which the handler goes on
RespondAndGoOn(h, status) ==
    [h EXCEPT !.status = status, !.responses = @ + 1]

\* the response a handler sends, once
Respond(h, status) ==
    [h EXCEPT !.pc = "done", !.status = status, !.responses = @ + 1]

InitProxy ==
    /\ GraphIdle
    /\ FlowIdle
    /\ AppIdle
    /\ ThreadIdle
    /\ accessToken = 0
    /\ tokenExpiry = NoExpiry
    /\ now = 0
    /\ handlers = [r \in Requests |-> NewHandler]
    /\ hasCredentials \in BOOLEAN
    /\ tokenRequests = 0
    /\ cacheWrites = 0
    /\ threadFetches = 0

\* app.get('/api/reddit/thread'): from the arrival of the request to the
\* first fetch, through the synchronous part of getRedditAccessToken
ReceiveRequest ==
    \E r \in Requests, url \in Urls :
        /\ handlers[r].pc = "idle"
        /\ IF ~ValidUrl(url)
           THEN /\ handlers' = [handlers EXCEPT ![r] = Respond([@ EXCEPT !.url = url], BadRequest)]
                /\ UNCHANGED <<tokenRequests, threadFetches>>
           ELSE IF CacheValid
           THEN /\ handlers' = [handlers EXCEPT ![r] =
                                    [@ EXCEPT !.url = url, !.pc = "thread", !.token = accessToken,
                                              !.fromCache = TRUE, !.receivedAt = now]]
                /\ threadFetches' = threadFetches + 1
                /\ UNCHANGED tokenRequests
           ELSE IF CredentialsMissing(hasCredentials)
           THEN /\ handlers' = [handlers EXCEPT ![r] = Respond([@ EXCEPT !.url = url], InternalError)]
                /\ UNCHANGED <<tokenRequests, threadFetches>>
           ELSE /\ handlers' = [handlers EXCEPT ![r] = [@ EXCEPT !.url = url, !.pc = "token"]]
                /\ tokenRequests' = tokenRequests + 1
                /\ UNCHANGED threadFetches
        /\ UNCHANGED <<accessToken, tokenExpiry, now, hasCredentials, cacheWrites>>
        /\ UNCHANGED <<graphVars, flowVars, appVars, threadVars>>

\* the token fetch rejects, or Reddit answers non-OK: the error propagates
TokenFailure ==
    \E r \in Requests :
        /\ handlers[r].pc = "token"
        /\ handlers' = [handlers EXCEPT ![r] = Respond(@, InternalError)]
        /\ UNCHANGED <<accessToken, tokenExpiry, now, hasCredentials, tokenRequests,
                       cacheWrites, threadFetches>>
        /\ UNCHANGED <<graphVars, flowVars, appVars, threadVars>>

\* Reddit answers the token request: the cache is written and the thread
\* is fetched with the new token.  Tokens are numbered in the order they
\* are written.
TokenResponse ==
    \E r \in Requests, expires_in \in Lifetimes :
        /\ handlers[r].pc = "token"
        /\ accessToken' = cacheWrites + 1
        /\ tokenExpiry' = [isNull |-> FALSE, ms |-> ExpiryOf(now, expires_in)]
        /\ cacheWrites' = cacheWrites + 1
        /\ handlers' = [handlers EXCEPT ![r] =
                            [@ EXCEPT !.pc = "thread", !.token = cacheWrites + 1,
                                      !.expires_in = expires_in, !.receivedAt = now]]
        /\ threadFetches' = threadFetches + 1
        /\ UNCHANGED <<now, hasCredentials, tokenRequests>>
        /\ UNCHANGED <<graphVars, flowVars, appVars, threadVars>>

\* the status sent for the outcome of the thread fetch: OK, non-OK, or
\* a rejected fetch / unreadable body
StatusFor(outcome) ==
    IF outcome = "ok" THEN Ok
    ELSE IF outcome = "notOk" THEN UpstreamNotOk
    ELSE InternalError

\* the thread fetch settles
ThreadResponse ==
    \E r \in Requests, outcome \in {"ok", "notOk", "throws"} :
        /\ handlers[r].pc = "thread"
        /\ handlers' = [handlers EXCEPT ![r] =
                            Respond([@ EXCEPT !.upstream = outcome], StatusFor(outcome))]
        /\ UNCHANGED <<accessToken, tokenExpiry, now, hasCredentials, tokenRequests,
                       cacheWrites, threadFetches>>
        /\ UNCHANGED <<graphVars, flowVars, appVars, threadVars>>

\* time passes
Tick ==
    /\ now < MaxTicks * TickMs
    /\ now' = now + TickMs
    /\ UNCHANGED <<accessToken, tokenExpiry, handlers, hasCredentials, tokenRequests,
                   cacheWrites, threadFetches>>
    /\ UNCHANGED <<graphVars, flowVars, appVars, threadVars>>

NextProxy ==
    \/ ReceiveRequest
    \/ TokenFailure
    \/ TokenResponse
    \/ ThreadResponse
    \/ Tick

SpecProxy == InitProxy /\ [][NextProxy]_vars

\* the handlers alone, at one instant of the clock: a cached token is valid
\* or not by its expires_in
NextHandlers ==
    \/ ReceiveRequest
    \/ TokenFailure
    \/ TokenResponse
    \/ ThreadResponse

\* every fetch the proxy sent settles
FairProxy ==
    /\ InitProxy
    /\ [][NextHandlers]_vars
    /\ WF_vars(TokenFailure \/ TokenResponse)
    /\ WF_vars(ThreadResponse)

----------------------------------------------------------------------------
(* The 3D thread app.  handleSubmit runs to its await in one step; the     *)
(* state updates of a step are one batch.  parseRedditThread is not part   *)
(* of the source tree: it is called with the url and its promise resolves  *)
(* with a thread or rejects with a message.  The form is drawn while       *)
(* threadData is null, the canvas with the reset button otherwise; the     *)
(* input and the submit button are disabled while loading, the submit      *)
(* button also while url is empty.                                         *)

MaxSubmits == 4
MaxThreads == 2
MaxShown == 2

\* the url typed or chosen: '', a text without 'reddit.com', a text with it
UrlTexts == {"empty", "other", "reddit"}

\* throw new Error('Please enter a valid Reddit URL')
InvalidUrlMessage == "Please enter a valid Reddit URL"

\* the messages parseRedditThread rejects with
ParseMessages == {"Failed to fetch thread"}

\* a validation that accepts every text
IncludesAnything(text) == TRUE

\* url.includes('reddit.com')
IncludesReddit(text) == text = "reddit"

InitThreadApp ==
    /\ GraphIdle
    /\ FlowIdle
    /\ AppIdle
    /\ ProxyIdle
    /\ ThreadIdle

\* onChange of the input (enabled while not loading) and the example
\* buttons, which set a reddit url
SetUrl ==
    \E text \in UrlTexts :
        /\ threadData = 0
        /\ ~threadLoading \/ text = "reddit"
        /\ threadUrl' = text
        /\ UNCHANGED <<threadLoading, threadError, threadData, selectedNode,
                       submit, submits, parseCalls, transformVars>>
        /\ UNCHANGED <<graphVars, flowVars, appVars, proxyVars>>

\* handleSubmit up to its await, or through catch and finally when the
\* url is rejected
HandleSubmit ==
    /\ threadData = 0
    /\ ~threadLoading
    /\ threadUrl # "empty"
    /\ submits < MaxSubmits
    /\ submits' = submits + 1
    /\ IF ~IncludesReddit(threadUrl)
       THEN /\ threadError' = InvalidUrlMessage
            /\ threadLoading' = FALSE
            /\ submit' = "invalidUrl"
            /\ UNCHANGED parseCalls
       ELSE /\ threadError' = "null"
            /\ threadLoading' = TRUE
            /\ submit' = "pending"
            /\ parseCalls' = parseCalls + 1
    /\ UNCHANGED <<threadUrl, threadData, selectedNode, transformVars>>
    /\ UNCHANGED <<graphVars, flowVars, appVars, proxyVars>>

\* the promise resolves: setThreadData(data), finally setLoading(false)
ParseResolves ==
    \E data \in 1..MaxThreads :
        /\ submit = "pending"
        /\ threadData' = data
        /\ threadLoading' = FALSE
        /\ submit' = "resolved"
        /\ UNCHANGED <<threadUrl, threadError, selectedNode, submits, parseCalls,
                       transformVars>>
        /\ UNCHANGED <<graphVars, flowVars, appVars, proxyVars>>

\* the promise rejects: setError(err.message), finally setLoading(false)
ParseRejects ==
    \E message \in ParseMessages :
        /\ submit = "pending"
        /\ threadError' = message
        /\ threadLoading' = FALSE
        /\ submit' = "rejected"
        /\ UNCHANGED <<threadUrl, threadData, selectedNode, submits, parseCalls,
                       transformVars>>
        /\ UNCHANGED <<graphVars, flowVars, appVars, proxyVars>>

\* onNodeClick={setSelectedNode}, on a node the canvas draws
SetSelectedNode ==
    \E shown \in 1..MaxShown :
        /\ threadData # 0
        /\ selectedNode' = shown
        /\ UNCHANGED <<threadUrl, threadLoading, threadError, threadData,
                       submit, submits, parseCalls, transformVars>>
        /\ UNCHANGED <<graphVars, flowVars, appVars, proxyVars>>

HandleReset ==
    /\ threadData # 0
    /\ threadUrl' = "empty"
    /\ threadData' = 0
    /\ selectedNode' = 0
    /\ threadError' = "null"
    /\ UNCHANGED <<threadLoading, submit, submits, parseCalls, transformVars>>
    /\ UNCHANGED <<graphVars, flowVars, appVars, proxyVars>>

NextThreadApp ==
    \/ SetUrl
    \/ HandleSubmit
    \/ ParseResolves
    \/ ParseRejects
    \/ SetSelectedNode
    \/ HandleReset

SpecThreadApp == InitThreadApp /\ [][NextThreadApp]_vars

----------------------------------------------------------------------------
(* The node helpers and the graph transformer of the 3D thread app.  A     *)
(* graph node carries the keyword flags that extractKeywords spreads into  *)
(* it; extractKeywords is not part of the source tree, the flags are the   *)
(* three the colour legend names.  A comment tree is held as a parent      *)
(* vector: node 1 is the root (parent 0), a node's id is its index, its    *)
(* children are the later nodes naming it as parent, in index order.       *)
(* Position, size and opacity of a graph node are not carried: they are    *)
(* real-valued, the z coordinate is random, and nothing read here depends  *)
(* on them.                                                                *)

MaxDepth == 6
MaxChildren == 4
MaxTreeNodes == 4
MaxNodeScore == 1

DeepDepth == 5
BranchChildren == 3
ShallowDepth == 2

Flags == [isSolution : BOOLEAN, isQuestion : BOOLEAN, isDebate : BOOLEAN]

\* the nodes the helpers are called with
GraphNodes ==
    [isSolution : BOOLEAN, isQuestion : BOOLEAN, isDebate : BOOLEAN,
     depth : 0..MaxDepth, childrenCount : 0..MaxChildren]

computeNodeColor(node) ==
    IF node.isSolution THEN "#4ade80"
    ELSE IF node.isQuestion THEN "#fbbf24"
    ELSE IF node.isDebate THEN "#fb923c"
    ELSE IF node.depth >= DeepDepth THEN "#60a5fa"
    ELSE IF node.depth < ShallowDepth THEN "#6bbaff"
    ELSE IF node.depth < DeepDepth THEN "#a4e86f"
    ELSE "#ffda8e"

\* a labelling that tests the branch point before the depth
getNodeTypeLabelBranchFirst(node) ==
    IF node.isSolution THEN "Solution"
    ELSE IF node.isQuestion THEN "Question"
    ELSE IF node.isDebate THEN "Debate"
    ELSE IF node.childrenCount > BranchChildren THEN "Branch Point"
    ELSE IF node.depth >= DeepDepth THEN "Deep Discussion"
    ELSE "Comment"

getNodeTypeLabel(node) ==
    IF node.isSolution THEN "Solution"
    ELSE IF node.isQuestion THEN "Question"
    ELSE IF node.isDebate THEN "Debate"
    ELSE IF node.depth >= DeepDepth THEN "Deep Discussion"
    ELSE IF node.childrenCount > BranchChildren THEN "Branch Point"
    ELSE "Comment"

InitNode ==
    /\ GraphIdle
    /\ FlowIdle
    /\ AppIdle
    /\ ProxyIdle
    /\ ThreadAppIdle
    /\ tree = NoTree
    /\ graph3d = NoGraph3d
    /\ graphNode \in GraphNodes
    /\ color = "none"
    /\ label = "none"

ComputeNodeColor ==
    /\ color = "none"
    /\ color' = computeNodeColor(graphNode)
    /\ UNCHANGED <<tree, graph3d, graphNode, label>>
    /\ UNCHANGED <<graphVars, flowVars, appVars, proxyVars, threadAppVars>>

GetNodeTypeLabel ==
    /\ label = "none"
    /\ label' = getNodeTypeLabel(graphNode)
    /\ UNCHANGED <<tree, graph3d, graphNode, color>>
    /\ UNCHANGED <<graphVars, flowVars, appVars, proxyVars, threadAppVars>>

NextNode ==
    \/ ComputeNodeColor
    \/ GetNodeTypeLabel

SpecNode == InitNode /\ [][NextNode]_vars

\* the scores of the comments
Scores == (0 - MaxNodeScore)..MaxNodeScore

\* the flags of a comment: at most one keyword family found in its text
KeywordChoices ==
    {f \in Flags : ~(f.isSolution /\ f.isQuestion) /\ ~(f.isSolution /\ f.isDebate)
                   /\ ~(f.isQuestion /\ f.isDebate)}

RECURSIVE NodeDepth(_, _)
\* node.depth: the number of ancestors
NodeDepth(t, i) ==
    IF t.parent[i] = 0 THEN 0
    ELSE LET above == NodeDepth(t, t.parent[i]) IN above + 1

RECURSIVE ChildrenFrom(_, _, _)
ChildrenFrom(t, i, j) ==
    IF j > t.size THEN <<>>
    ELSE LET rest == ChildrenFrom(t, i, j + 1)
         IN IF t.parent[j] = i THEN <<j>> \o rest ELSE rest

\* node.children
Children(t, i) == ChildrenFrom(t, i, i + 1)

\* the graphNode built for tree node i, before the second pass
GraphNodeOf(t, i) ==
    [id |-> i,
     depth |-> NodeDepth(t, i),
     score |-> t.score[i],
     childrenCount |-> Len(Children(t, i)),
     isSolution |-> t.flags[i].isSolution,
     isQuestion |-> t.flags[i].isQuestion,
     isDebate |-> t.flags[i].isDebate,
     color |-> "none"]

\* an edge from the node to its parent
EdgeToParent(t, i) == [source |-> i, target |-> t.parent[i]]

\* edges.push({source: parent.id, target: node.id, ...})
EdgeFromParent(t, i) == [source |-> t.parent[i], target |-> i]

RECURSIVE collectNodes(_, _, _)
RECURSIVE forEachChild(_, _, _)
collectNodes(t, i, acc) ==
    LET pushed ==
            [nodes |-> Append(acc.nodes, GraphNodeOf(t, i)),
             edges |-> IF t.parent[i] # 0
                       THEN Append(acc.edges, EdgeFromParent(t, i))
                       ELSE acc.edges,
             maxScore |-> Max(acc.maxScore, t.score[i])]
    IN forEachChild(t, Children(t, i), pushed)

\* node.children.forEach(child => collectNodes(child, graphNode, ...))
forEachChild(t, children, acc) ==
    IF children = <<>> THEN acc
    ELSE LET done == collectNodes(t, Head(children), acc)
         IN forEachChild(t, Tail(children), done)

transformTreeTo3DGraph(t) ==
    LET collected == collectNodes(t, 1, NoGraph3d)
    IN [nodes |-> [k \in 1..Len(collected.nodes) |->
                      [collected.nodes[k] EXCEPT
                          !.color = computeNodeColor(collected.nodes[k])]],
        edges |-> collected.edges,
        maxScore |-> collected.maxScore]

\* the parent vectors of the trees of n comments
ParentVectors(n) ==
    {p \in [1..n -> 0..n] : p[1] = 0 /\ \A i \in 2..n : p[i] \in 1..(i - 1)}

InitTransform ==
    /\ GraphIdle
    /\ FlowIdle
    /\ AppIdle
    /\ ProxyIdle
    /\ ThreadAppIdle
    /\ \E n \in 1..MaxTreeNodes :
         \E p \in ParentVectors(n) :
           \E s \in [1..n -> Scores] :
             \E f \in [1..n -> KeywordChoices] :
               tree = [size |-> n, parent |-> p, score |-> s, flags |-> f]
    /\ graph3d = NoGraph3d
    /\ graphNode = NoNode
    /\ color = "none"
    /\ label = "none"

\* Canvas3D's useMemo: transformTreeTo3DGraph(threadData.root)
TransformTreeTo3DGraph ==
    /\ graph3d = NoGraph3d
    /\ graph3d' = transformTreeTo3DGraph(tree)
    /\ UNCHANGED <<tree, graphNode, color, label>>
    /\ UNCHANGED <<graphVars, flowVars, appVars, proxyVars, threadAppVars>>

NextTransform == TransformTreeTo3DGraph

SpecTransform == InitTransform /\ [][NextTransform]_vars

----------------------------------------------------------------------------
(* Reference notions the claims are stated with.  None of them is used by  *)
(* the model of the code above.                                            *)

HasLink(g, u, v) == \E i \in DOMAIN g.links : g.links[i].source = u /\ g.links[i].target = v

\* the ids a walk of exactly k links, each followed from its source to its
\* target, leads to from s
RECURSIVE ReachIn(_, _, _)
ReachIn(g, s, k) ==
    IF k = 0 THEN {s}
    ELSE LET before == ReachIn(g, s, k - 1)
         IN {g.links[i].target : i \in {j \in DOMAIN g.links : g.links[j].source \in before}}

\* a shortest walk uses no link twice
Reachable(g, s, t) == \E k \in 0..Len(g.links) : t \in ReachIn(g, s, k)

MinHops(g, s, t) ==
    CHOOSE k \in 0..Len(g.links) :
        /\ t \in ReachIn(g, s, k)
        /\ \A j \in 0..(k - 1) : t \notin ReachIn(g, s, j)

LinksIntact(g) ==
    \A i \in DOMAIN g.links : g.links[i].source \in NodeIds(g) /\ g.links[i].target \in NodeIds(g)

\* breadth-first discovery with predecessor pointers: the ids in the order
\* of their discovery, each with the id that discovered it; the links
\* leaving a node are scanned in the order of graph.links
RECURSIVE ScanLinks(_, _, _, _)
ScanLinks(links, u, order, parent) ==
    IF links = <<>> THEN [order |-> order, parent |-> parent]
    ELSE LET l == Head(links)
         IN IF l.source = u /\ l.target \notin Range(order)
            THEN ScanLinks(Tail(links), u, Append(order, l.target), (l.target :> u) @@ parent)
            ELSE ScanLinks(Tail(links), u, order, parent)

RECURSIVE Discover(_, _, _, _)
Discover(links, order, parent, i) ==
    IF i > Len(order) THEN [order |-> order, parent |-> parent]
    ELSE LET d == ScanLinks(links, order[i], order, parent)
         IN Discover(links, d.order, d.parent, i + 1)

RECURSIVE Trace(_, _, _)
Trace(parent, s, t) == IF t = s THEN <<s>> ELSE Append(Trace(parent, s, parent[t]), t)

FirstDiscoveryPath(g, s, t) ==
    LET d == Discover(g.links, <<s>>, (s :> s), 1)
    IN IF t \in Range(d.order) THEN Trace(d.parent, s, t) ELSE <<>>

\* the same graph with every link value replaced by the opposite one
Revalued(g) ==
    [g EXCEPT !.links = [i \in DOMAIN g.links |->
                            [g.links[i] EXCEPT !.value = MaxValue + 1 - g.links[i].value]]]

\* the ordered pairs of distinct nodes whose chosen path passes through v
PairsThrough(g, v) ==
    {st \in NodeIds(g) \X NodeIds(g) :
        st[1] # st[2] /\ v \in Interior(findPath(g, st[1], st[2]))}

\* the graph of exactly the links A->B and B->C on the nodes A, B, C
ChainGraph == GraphOf(3, LinksOf(<< <<1, 2>>, <<2, 3>> >>))

RanFindPath == op = "findPath" /\ ~Missing(graph)

RanCentrality == op = "calculateCentrality" /\ ~Missing(graph)

----------------------------------------------------------------------------
(* Claims about the graph utilities *)

\* C1: for every graph with n >= 3 nodes whose links reference only
\* existing node ids, every score returned by calculateCentrality lies in
\* [0,1].  (Refuted: two paths through one node of a 3-node graph score 2.)
C1_ScoresInUnitInterval ==
    (RanCentrality /\ Len(graph.nodes) >= 3 /\ LinksIntact(graph)) =>
        \A id \in DOMAIN centrality :
            /\ ~centrality[id].nan
            /\ 0 <= centrality[id].num
            /\ centrality[id].num <= centrality[id].den

C4_UnreachableIsEmpty ==
    (op = "findPath" /\ (\/ ~graph.exists
                          \/ ~graph.hasNodes
                          \/ ~graph.hasLinks
                          \/ (sourceId # targetId /\ ~Reachable(graph, sourceId, targetId)))) =>
        path = <<>>

\* C4 witness: the target is unreachable although a link leads from it to
\* the source, and the empty sequence was returned.
C4_Witness ==
    /\ RanFindPath
    /\ sourceId # targetId
    /\ HasLink(graph, targetId, sourceId)
    /\ ~Reachable(graph, sourceId, targetId)
    /\ path = <<>>

\* C4 witness of the missing part: the graph has links but no nodes
\* property, and the empty sequence was returned.
C4_WitnessMissing ==
    /\ op = "findPath"
    /\ graph.exists /\ ~graph.hasNodes /\ HasLink(graph, sourceId, targetId)
    /\ path = <<>>

\* C5: among several directed paths of the same minimum length findPath
\* returns the one of a first-in-first-out breadth-first traversal in which
\* each node's predecessor is the node that discovered it first, neighbours
\* being discovered in the order of graph.links; the choice is the same
\* whatever the link values are.
C5_FirstDiscoveredWins ==
    RanFindPath =>
        /\ path = FirstDiscoveryPath(graph, sourceId, targetId)
        /\ path = findPath(Revalued(graph), sourceId, targetId)

\* C5 witness: two paths of two hops lead to the target, and the returned
\* one starts with the link of the smaller value.
C5_Witness ==
    /\ RanFindPath
    /\ Len(path) = 3
    /\ \E i, j \in DOMAIN graph.links :
          /\ graph.links[i].source = sourceId
          /\ graph.links[i].target = path[2]
          /\ graph.links[j].source = sourceId
          /\ graph.links[j].target # path[2]
          /\ HasLink(graph, graph.links[j].target, targetId)
          /\ graph.links[i].value < graph.links[j].value

\* C6: for n >= 3 the score of node v is the number of ordered pairs (s,t)
\* of distinct nodes whose findPath(s,t) contains v strictly between s and
\* t, divided by (n-1)(n-2)/2.
C6_ScoreIsPairCount ==
    (RanCentrality /\ Len(graph.nodes) >= 3) =>
        \A v \in NodeIds(graph) :
            /\ v \in DOMAIN centrality
            /\ ~centrality[v].nan
            /\ centrality[v].num = Cardinality(PairsThrough(graph, v))
            /\ 2 * centrality[v].den = (Len(graph.nodes) - 1) * (Len(graph.nodes) - 2)

\* C6 witness: a node of a 4-node graph lies on the paths of three pairs.
C6_Witness ==
    /\ RanCentrality
    /\ Len(graph.nodes) = 4
    /\ \E v \in NodeIds(graph) : centrality[v].num = 3 /\ centrality[v].den = 3

\* C7: for every graph with fewer than 3 nodes calculateCentrality returns
\* score 0 for every node and divides by no zero.
C7_SmallGraphScoresZero ==
    (RanCentrality /\ Len(graph.nodes) < 3) =>
        /\ \A v \in NodeIds(graph) :
              v \in DOMAIN centrality /\ ~centrality[v].nan /\ centrality[v].num = 0
        /\ \A id \in DOMAIN centrality : centrality[id].den # 0

\* C7 witness: two nodes joined by a link, both scored 0.
C7_Witness ==
    /\ RanCentrality
    /\ Len(graph.nodes) = 2
    /\ HasLink(graph, 1, 2)
    /\ centrality[1].num = 0 /\ centrality[2].num = 0

----------------------------------------------------------------------------
(* Claims about the migration pipeline *)

\* the distinct users who were ever active in community s
EverActive(s) == {r.user : r \in {q \in records : q.community = s}}

EdgesFrom(es, s) == {i \in DOMAIN es : es[i].source = s}

\* the sum of value over the edges with source s
RECURSIVE OutValue(_, _, _)
OutValue(es, s, i) ==
    IF i > Len(es) THEN 0
    ELSE (IF es[i].source = s THEN es[i].value ELSE 0) + OutValue(es, s, i + 1)

\* C9 as stated: for every source community s, the sum of value over all
\* flow edges whose source is s is at most the number of distinct users who
\* were ever active in s.  (Refuted: a user who leaves s for two
\* destinations is counted on both edges.)
C9_OutValueAtMostUsers ==
    stage = "aggregated" =>
        \A s \in Range(Communities) : OutValue(edges, s, 1) <= Cardinality(EverActive(s))

\* C9 as amended: the value of every flow edge s->t is at most the number
\* of distinct users who were ever active in s (a user is counted once per
\* destination), so the sum over the edges with source s is at most that
\* number times the number of those edges.
C9_EdgeValueAtMostUsers ==
    stage = "aggregated" =>
        /\ \A i \in DOMAIN edges :
              edges[i].value <= Cardinality(EverActive(edges[i].source))
        /\ \A s \in Range(Communities) :
              OutValue(edges, s, 1)
                  <= Cardinality(EverActive(s)) * Cardinality(EdgesFrom(edges, s))

\* C9 witness: the only user ever active in fitness left it for two
\* destinations, so the values of the two edges leaving fitness sum to 2.
C9_Witness ==
    /\ stage = "aggregated"
    /\ Cardinality(EverActive("fitness")) = 1
    /\ Cardinality(EdgesFrom(edges, "fitness")) = 2
    /\ OutValue(edges, "fitness", 1) = 2

\* C10: detect emits an event A->B for a user only when B's activity begins
\* strictly after the end of A's activity interval and the gap is within
\* [min_gap, max_gap]; for the single user with records
\* {fitness: [day0,day10], loseit: [day15,day40]} and inactivity_window=5d,
\* min_gap=1d, max_gap=180d it emits exactly one event, fitness->loseit
\* with gap = 5d, and aggregation yields exactly one edge fitness->loseit
\* with value 1.  (Refuted: loseit begins on the day fitness's interval
\* ends, not strictly after it, and no event is emitted.)
C10_ScenarioOneEvent ==
    /\ stage \in {"detected", "aggregated"} =>
          \A i \in DOMAIN events :
              \E a \in records, b \in records :
                  /\ a.user = events[i].user /\ b.user = events[i].user
                  /\ a.community = events[i].from_community
                  /\ b.community = events[i].to_community
                  /\ b.first_seen > a.last_seen + config.inactivity_window
                  /\ config.min_gap <= events[i].gap
                  /\ events[i].gap <= config.max_gap
    /\ (records = ScenarioRecords /\ config = ScenarioConfig) =>
          /\ stage \in {"detected", "aggregated"} =>
                /\ Len(events) = 1
                /\ events[1].user = 1
                /\ events[1].from_community = "fitness"
                /\ events[1].to_community = "loseit"
                /\ events[1].gap = 5
          /\ stage = "aggregated" =>
                /\ Len(edges) = 1
                /\ edges[1].source = "fitness"
                /\ edges[1].target = "loseit"
                /\ edges[1].value = 1

\* the closed activity intervals [first_seen, last_seen + inactivity_window]
\* of two records share a day
Overlap(a, b, cfg) ==
    /\ a.first_seen <= ActiveEnd(b, cfg)
    /\ b.first_seen <= ActiveEnd(a, cfg)

EventsBetween(evs, u, from, to) ==
    {i \in DOMAIN evs : /\ evs[i].user = u
                        /\ evs[i].from_community = from
                        /\ evs[i].to_community = to}

Detected == stage \in {"detected", "aggregated"}

\* C11: concurrent participation is never reported as migration: for every
\* user and every pair of communities A, B whose active intervals
\* [first_seen, last_seen + inactivity_window] overlap, detect emits no
\* MigrationEvent(A,B) for that user.
C11_NoMigrationWhenConcurrent ==
    Detected =>
        \A a \in records, b \in records :
            (a.user = b.user /\ a.community # b.community /\ Overlap(a, b, config))
                => EventsBetween(events, a.user, a.community, b.community) = {}

\* C11 witness: loseit begins on the very day fitness's activity interval
\* ends (the intervals share that single day), both count as active, the
\* gap bounds admit a gap of 0, and the same user's move from fitness to
\* keto is reported while the one to loseit is not.
C11_Witness ==
    /\ Detected
    /\ config.min_gap = 0
    /\ \E a \in records, b \in records :
          /\ a.user = b.user
          /\ a.community = "fitness" /\ b.community = "loseit"
          /\ a.post_count >= config.min_posts_threshold
          /\ b.post_count >= config.min_posts_threshold
          /\ b.first_seen = ActiveEnd(a, config)
          /\ EventsBetween(events, a.user, "fitness", "keto") # {}
          /\ EventsBetween(events, a.user, "fitness", "loseit") = {}

\* the sum of the gaps of the events with the given indices
RECURSIVE GapSum(_, _)
GapSum(evs, idx) ==
    IF idx = {} THEN 0
    ELSE LET i == CHOOSE k \in idx : TRUE
         IN evs[i].gap + GapSum(evs, idx \ {i})

EventsOfPair(evs, from, to) ==
    {i \in DOMAIN evs : evs[i].from_community = from /\ evs[i].to_community = to}

----------------------------------------------------------------------------
(* Claims about the App and the utility calls *)

\* the filter effect has run and the filters have their initial values
DefaultView ==
    /\ ~loading
    /\ ~effectPending
    /\ selectedCategory = "all"
    /\ minFlow = DefaultMinFlow

\* no link of g starts or ends at id
Isolated(g, id) ==
    \A i \in DOMAIN g.links : g.links[i].source # id /\ g.links[i].target # id

(* C13: in the App's default state (category 'all', default minimum flow)   *)
(* every node of the loaded graph that has no links is a node of            *)
(* filteredData.graph, the graph handed to NetworkGraph.                    *)
C13_IsolatedNodesRetained ==
    DefaultView =>
        \A id \in NodeIds(rawData.graph) :
            Isolated(rawData.graph, id) => id \in NodeIds(filteredData.graph)

(* C14: if every link of the loaded graph references existing node ids,    *)
(* then whatever category and minimum-flow changes were made, every link   *)
(* of filteredData.graph has its source and its target among the ids of    *)
(* filteredData.graph's nodes.                                             *)
C14_FilteringKeepsIntegrity ==
    (~loading /\ LinksIntact(rawData.graph)) => LinksIntact(filteredData.graph)

\* both filters were applied, each dropped something and a link was kept
C14_Witness ==
    /\ ~loading
    /\ ~effectPending
    /\ LinksIntact(rawData.graph)
    /\ selectedCategory # "all"
    /\ minFlow > DefaultMinFlow
    /\ Len(filteredData.graph.links) > 0
    /\ Len(filteredData.graph.links) < Len(rawData.graph.links)
    /\ Len(filteredData.graph.nodes) < Len(rawData.graph.nodes)

C17_SelectionInFilteredGraph ==
    ~effectPending =>
        /\ selectedCommunity = 0 \/ selectedCommunity \in NodeIds(filteredData.graph)
        /\ showDetail => selectedCommunity # 0

\* a community is selected and shown in a graph the filters made smaller
C17_Witness ==
    /\ ~loading
    /\ ~effectPending
    /\ selectedCommunity # 0
    /\ showDetail
    /\ Len(filteredData.graph.nodes) < Len(rawData.graph.nodes)
    /\ Len(filteredData.graph.nodes) > 1

\* the links of g that start or end at id
LinksAt(g, id) ==
    {g.links[i] : i \in {j \in DOMAIN g.links : g.links[j].source = id \/ g.links[j].target = id}}

\* id, the sources of the links entering id and the targets of the links leaving id
Neighbourhood(g, id) ==
    {id} \cup {l.source : l \in {k \in LinksAt(g, id) : k.target = id}}
         \cup {l.target : l \in {k \in LinksAt(g, id) : k.source = id}}

(* C18: whenever highlightNodes is non-empty, also after a category or     *)
(* minimum-flow change that keeps the community selected, highlightNodes   *)
(* holds the selected community, the sources of its incoming links and     *)
(* the targets of its outgoing links in the current filteredData.graph,    *)
(* and highlightLinks holds exactly those links.                           *)
C18_HighlightsMatchCurrentGraph ==
    (~effectPending /\ highlightNodes # <<>>) =>
        /\ Range(highlightNodes) = Neighbourhood(filteredData.graph, selectedCommunity)
        /\ Range(highlightLinks) = LinksAt(filteredData.graph, selectedCommunity)

----------------------------------------------------------------------------
(* Claims about the proxy *)

\* the handlers that obtained a token from Reddit / were served from the cache
Obtained == {r \in Requests : handlers[r].token # 0 /\ ~handlers[r].fromCache}

Served == {r \in Requests : handlers[r].token # 0 /\ handlers[r].fromCache}

\* the handler that obtained a token
ObtainerOf(token) == CHOOSE r \in Obtained : handlers[r].token = token

\* the end of the lifetime Reddit reported, counted from the moment the
\* token response was processed
LifetimeEnd(token) ==
    handlers[ObtainerOf(token)].receivedAt
        + handlers[ObtainerOf(token)].expires_in * MsPerSecond

\* from its receipt until the expiry computed for it
ValidityWindowEnd(r) == handlers[r].receivedAt + (handlers[r].expires_in - SafetyMargin) * MsPerSecond

(* C19: the token is requested at most once per validity window: no two    *)
(* token requests are outstanding at the same time, and a token is not     *)
(* obtained and written while an earlier one is still valid.               *)
C19_OneTokenRequestPerWindow ==
    /\ Cardinality({r \in Requests : handlers[r].pc = "token"}) <= 1
    /\ \A a \in Obtained, b \in Obtained :
           (a # b /\ handlers[a].token < handlers[b].token)
               => handlers[b].receivedAt >= ValidityWindowEnd(a)

(* C20: a request is served the cached token, with no token request sent,  *)
(* exactly when a token is cached and the time is before tokenExpiry;      *)
(* tokenExpiry lies 300 seconds before the end of the reported lifetime;   *)
(* a token served from the cache has more than 300 seconds of lifetime     *)
(* left when served, and its expires_in is above 300.                      *)
C20_CacheServesOnlyFreshTokens ==
    /\ [][\A r \in Requests :
             (handlers[r].pc = "idle" /\ handlers'[r].pc # "idle" /\ handlers'[r].url = "reddit")
                 => ((handlers'[r].fromCache /\ handlers'[r].token = accessToken
                          /\ tokenRequests' = tokenRequests)
                     <=> (accessToken # 0 /\ ~tokenExpiry.isNull /\ now < tokenExpiry.ms))]_vars
    /\ [](~tokenExpiry.isNull =>
              tokenExpiry.ms = LifetimeEnd(accessToken) - 300 * 1000)
    /\ [](\A r \in Served :
              /\ LifetimeEnd(handlers[r].token) - handlers[r].receivedAt > 300 * 1000
              /\ handlers[ObtainerOf(handlers[r].token)].expires_in > 300)

\* a request was served from the cache, another obtained a token that
\* was never valid in the cache, and a later request had to ask again
C20_Witness ==
    /\ Served # {}
    /\ \E r \in Obtained : handlers[r].expires_in <= 300 /\ handlers[r].token < accessToken

\* the step in which handler r leaves pc "from" and responds
Answers(r, from) ==
    handlers[r].pc = from /\ handlers'[r].pc = "done"

\* neither the cache nor the counters of the fetches sent change
CacheKept == accessToken' = accessToken /\ tokenExpiry' = tokenExpiry

(* C21: when obtaining a token fails (credentials missing with no valid    *)
(* token cached, or the token fetch failing or answering non-OK), the      *)
(* cached accessToken / tokenExpiry are left as they were, the request is  *)
(* answered 500 and no thread fetch is sent for it.                        *)
C21_TokenFailureLeavesCache ==
    [][\A r \in Requests :
          /\ (/\ handlers[r].pc = "idle"
              /\ handlers'[r].url = "reddit"
              /\ ~(accessToken # 0 /\ ~tokenExpiry.isNull /\ now < tokenExpiry.ms)
              /\ ~hasCredentials)
                 => (/\ Answers(r, "idle")
                     /\ handlers'[r].status = 500
                     /\ CacheKept
                     /\ tokenRequests' = tokenRequests
                     /\ threadFetches' = threadFetches)
          /\ Answers(r, "token")
                 => (/\ handlers'[r].status = 500
                     /\ CacheKept
                     /\ threadFetches' = threadFetches
                     /\ handlers'[r].upstream = "none")]_vars

\* one request failed for a token while another one's token is cached
C21_Witness ==
    \E r \in Requests :
        /\ handlers[r].pc = "done"
        /\ handlers[r].url = "reddit"
        /\ handlers[r].upstream = "none"
        /\ handlers[r].token = 0
        /\ accessToken # 0

(* C22: every request gets exactly one response: 400 for a missing url or  *)
(* one without 'reddit.com', the upstream status when Reddit answers       *)
(* non-OK, 200 on success, 500 when a step throws; never two responses,    *)
(* and a handler that has finished has responded.  Under FairProxy every   *)
(* request that arrived is eventually answered.                            *)
C22_ExactlyOneResponse ==
    /\ [](\A r \in Requests :
              /\ handlers[r].responses <= 1
              /\ handlers[r].pc = "done" <=> handlers[r].responses = 1
              /\ handlers[r].pc = "done" =>
                     handlers[r].status =
                         (IF handlers[r].url \in {"missing", "invalid"} THEN 400
                          ELSE IF handlers[r].upstream = "ok" THEN 200
                          ELSE IF handlers[r].upstream = "notOk" THEN UpstreamNotOk
                          ELSE 500))
    /\ \A r \in Requests :
           (handlers[r].pc \in {"token", "thread"}) ~> (handlers[r].responses = 1)

\* all four kinds of answer were given
C22_Witness ==
    /\ \E r \in Requests : handlers[r].pc = "done" /\ handlers[r].status = 400
    /\ \E r \in Requests : handlers[r].pc = "done" /\ handlers[r].upstream = "notOk"
    /\ \E r \in Requests : handlers[r].pc = "done" /\ handlers[r].status = 500

(* C23: the thread url is fetched only for a request whose url passed      *)
(* validation and that holds a token; a request answered 400 sends no      *)
(* token request and no thread fetch and leaves the cache unchanged, and   *)
(* every request with a missing or non-reddit url is answered 400.         *)
C23_FetchOnlyAfterValidation ==
    [][\A r \in Requests :
          /\ (handlers[r].pc = "idle" /\ handlers'[r].url \in {"missing", "invalid"})
                 => (Answers(r, "idle") /\ handlers'[r].status = 400)
          /\ (Answers(r, "idle") /\ handlers'[r].status = 400)
                 => (/\ CacheKept
                     /\ cacheWrites' = cacheWrites
                     /\ tokenRequests' = tokenRequests
                     /\ threadFetches' = threadFetches)
          /\ (handlers[r].pc # "thread" /\ handlers'[r].pc = "thread")
                 => (/\ handlers'[r].url = "reddit"
                     /\ handlers'[r].token # 0
                     /\ handlers'[r].token = accessToken'
                     /\ threadFetches' = threadFetches + 1)
          /\ threadFetches' # threadFetches
                 => \E q \in Requests : handlers[q].pc # "thread" /\ handlers'[q].pc = "thread"]_vars

\* a request was answered 400 while a token was cached and another
\* request's thread fetch was outstanding
C23_Witness ==
    /\ accessToken # 0
    /\ \E r \in Requests : handlers[r].pc = "done" /\ handlers[r].status = 400
    /\ \E r \in Requests : handlers[r].pc = "thread"

----------------------------------------------------------------------------
(* Claims about loading *)

(* C24: after the App mounts loading eventually becomes false, whether the *)
(* load succeeds or fails; loadMigrationData resolves to a document with   *)
(* graph.nodes = [] and graph.links = [] on a rejected fetch, a non-OK     *)
(* response and a document without graph, graph.nodes or graph.links; so   *)
(* once loading is false filteredData.graph, with its nodes and links, is  *)
(* defined.                                                                *)
C24_LoadingEnds ==
    /\ <>(~loading)
    /\ [](\A response \in FailedResponses :
              LET data == loadMigrationData(response)
              IN /\ data.present /\ data.graph.exists
                 /\ data.graph.hasNodes /\ data.graph.nodes = <<>>
                 /\ data.graph.hasLinks /\ data.graph.links = <<>>)
    /\ [](~loading =>
              /\ filteredData.present
              /\ filteredData.graph.exists
              /\ filteredData.graph.hasNodes
              /\ filteredData.graph.hasLinks)

\* the load has ended with the empty document and the filter effect has run
C24_Witness ==
    /\ ~loading
    /\ ~effectPending
    /\ rawData = EmptyData
    /\ filteredData.graph.nodes = <<>>

----------------------------------------------------------------------------
(* Claims about termination *)

\* the ids a walk along the links leads to from s, s included
ReachableSet(g, s) == UNION {ReachIn(g, s, k) : k \in 0..Len(g.links)}

(* C26: findPath terminates on every graph, with cycles, self-loops and    *)
(* duplicate links: an id is put on the queue at most once, so the loop    *)
(* runs at most once per distinct id reachable from the source; when the   *)
(* target is not found it has run exactly once per such id.                *)
C26_LoopBoundedByReachable ==
    (op = "findPath" /\ graph.exists /\ graph.hasNodes /\ graph.hasLinks) =>
        LET search == Bfs(graph, sourceId, targetId)
            reach == ReachableSet(graph, sourceId)
        IN /\ search.visited \subseteq reach
           /\ search.shifts <= Cardinality(search.visited)
           /\ search.shifts <= Cardinality(reach)
           /\ search.path = <<>> => search.shifts = Cardinality(reach)
           /\ path = search.path

\* a search that ran to the end over a cycle through the source, a
\* self-loop and a duplicate link
C26_Witness ==
    /\ op = "findPath"
    /\ graph.exists /\ graph.hasNodes /\ graph.hasLinks
    /\ path = <<>>
    /\ Bfs(graph, sourceId, targetId).shifts >= 2
    /\ \E i \in DOMAIN graph.links :
           graph.links[i].source = graph.links[i].target
               /\ graph.links[i].source \in ReachableSet(graph, sourceId)
    /\ \E i \in DOMAIN graph.links :
           graph.links[i].target = sourceId /\ graph.links[i].source # sourceId
               /\ graph.links[i].source \in ReachableSet(graph, sourceId)
    /\ \E i \in DOMAIN graph.links, j \in DOMAIN graph.links :
           /\ i # j
           /\ graph.links[i].source = graph.links[j].source
           /\ graph.links[i].target = graph.links[j].target
           /\ graph.links[i].source \in ReachableSet(graph, sourceId)

----------------------------------------------------------------------------
(* Claims about filterByMinFlow *)

\* the links of value at least m, in their order
RECURSIVE LinksAtLeast(_, _)
LinksAtLeast(links, m) ==
    IF links = <<>> THEN <<>>
    ELSE IF Head(links).value >= m
         THEN <<Head(links)>> \o LinksAtLeast(Tail(links), m)
         ELSE LinksAtLeast(Tail(links), m)

\* the nodes that are an end of one of the links, in their order
RECURSIVE NodesOn(_, _)
NodesOn(nodes, links) ==
    IF nodes = <<>> THEN <<>>
    ELSE IF \E i \in DOMAIN links :
                links[i].source = Head(nodes).id \/ links[i].target = Head(nodes).id
         THEN <<Head(nodes)>> \o NodesOn(Tail(nodes), links)
         ELSE NodesOn(Tail(nodes), links)

(* C27: filterByMinFlow(data, m) with m > 0 returns the links of value     *)
(* >= m in input order and the nodes that are an end of a kept link; with  *)
(* m <= 0 it returns data unchanged; applied again with the same m to its  *)
(* result it returns the same graph.                                       *)
C27_MinFlowFilter ==
    (op = "filterByMinFlow" /\ graph.exists /\ graph.hasNodes /\ graph.hasLinks) =>
        LET m == returned.arg
            out == returned.value
        IN /\ m > 0 =>
                  /\ out.graph.links = LinksAtLeast(graph.links, m)
                  /\ out.graph.nodes = NodesOn(graph.nodes, LinksAtLeast(graph.links, m))
           /\ m <= 0 => out = DataOf(graph)
           /\ filterByMinFlow(out, m) = out

\* a link at the threshold was kept, a link below it and a node were dropped
C27_Witness ==
    /\ op = "filterByMinFlow"
    /\ graph.exists /\ graph.hasNodes /\ graph.hasLinks
    /\ returned.arg = SliderStep
    /\ \E i \in DOMAIN returned.value.graph.links :
           returned.value.graph.links[i].value = returned.arg
    /\ Len(returned.value.graph.links) < Len(graph.links)
    /\ Len(returned.value.graph.nodes) < Len(graph.nodes)
    /\ Len(returned.value.graph.nodes) > 0

----------------------------------------------------------------------------
(* Claims about the 3D thread app *)

(* C25: a submit that fails (url without 'reddit.com', or                  *)
(* parseRedditThread rejecting) sets error to the failure message, leaves  *)
(* threadData and selectedNode unchanged and returns loading to false; a   *)
(* url without 'reddit.com' fails without a call of parseRedditThread; a   *)
(* submit that succeeds sets threadData, with error null and loading       *)
(* false.                                                                  *)
C25_SubmitOutcomes ==
    [][/\ (submits' = submits + 1 /\ threadUrl = "other")
              => (/\ threadError' = "Please enter a valid Reddit URL"
                  /\ parseCalls' = parseCalls
                  /\ threadData' = threadData /\ selectedNode' = selectedNode
                  /\ threadLoading' = FALSE)
       /\ (submits' = submits + 1 /\ threadUrl = "reddit")
              => (parseCalls' = parseCalls + 1 /\ threadLoading' = TRUE)
       /\ (submit = "pending" /\ submit' = "rejected")
              => (/\ threadError' \in ParseMessages
                  /\ threadData' = threadData /\ selectedNode' = selectedNode
                  /\ threadLoading' = FALSE)
       /\ (submit = "pending" /\ submit' = "resolved")
              => (/\ threadData' # 0
                  /\ threadError' = "null"
                  /\ threadLoading' = FALSE)
       /\ (submit = "pending" /\ submit' # "pending")
              => submit' \in {"rejected", "resolved"}]_vars

\* after a success and a reset, a submit without 'reddit.com' has failed
C25_Witness ==
    /\ submit = "invalidUrl"
    /\ parseCalls >= 1
    /\ threadError # "null"
    /\ ~threadLoading
    /\ threadData = 0

----------------------------------------------------------------------------
(* Claims about the graph transformer and the node helpers *)

RECURSIVE PathTo(_, _)
\* the ids from the root down to node i
PathTo(t, i) ==
    IF t.parent[i] = 0 THEN <<i>>
    ELSE LET above == PathTo(t, t.parent[i]) IN Append(above, i)

\* i comes before j in pre-order: i is an ancestor of j, or where their
\* root paths part, i's branch is the earlier child
PreOrderBefore(t, i, j) ==
    LET a == PathTo(t, i)
        b == PathTo(t, j)
    IN \/ Len(a) < Len(b) /\ \A k \in 1..Len(a) : a[k] = b[k]
       \/ \E k \in 1..Min(Len(a), Len(b)) :
              /\ \A h \in 1..(k - 1) : a[h] = b[h]
              /\ a[k] < b[k]

ScoresOf(t) == {t.score[i] : i \in 1..t.size}

Highest(S) == CHOOSE x \in S : \A y \in S : y <= x

====
